---- MODULE Spec2Model ----
(***************************************************************************)
(* Piwik PRO server-side tag template (src/template.js).                   *)
(*                                                                         *)
(* One invocation of the tag: the synchronous script builds uiParamMap     *)
(* and requestBody from the tag configuration (data) and the event         *)
(* (eventData), serialises the body and calls sendHttpRequest; the         *)
(* promise's then-callback propagates the response and signals the host.   *)
(***************************************************************************)
EXTENDS Integers, Sequences, FiniteSets, TLC

VARIABLES
    data,             \* the tag configuration (template fields)
    eventData,        \* getAllEventData(): ordered list of <<key, value>>
    containerVersion, \* getContainerVersion(): debugMode / previewMode
    traceHeader,      \* getRequestHeader('trace-id')
    pc,               \* "start" | "pending" | "done" | "rejected"
    uiParamMap,       \* the uiParamMap object once the script has run
    requestBody,      \* the requestBody object after cleanObject
    response,         \* the response sendHttpRequest resolved with
    hostCalls         \* host API calls with an effect, in call order

vars == <<data, eventData, containerVersion, traceHeader, pc, uiParamMap,
          requestBody, response, hostCalls>>

inputs == <<data, eventData, containerVersion, traceHeader>>

(***************************************************************************)
(* JavaScript values.  Every value is a record [t, v]: t is the type tag,  *)
(* v the payload.  Objects are sequences of <<key, value>> pairs in        *)
(* property order; arrays are sequences of values.                         *)
(***************************************************************************)
Undefined == [t |-> "undefined", v |-> ""]
Null == [t |-> "null", v |-> ""]
NaN == [t |-> "nan", v |-> ""]
Str(s) == [t |-> "string", v |-> s]
Num(n) == [t |-> "number", v |-> n]
Bool(b) == [t |-> "boolean", v |-> b]
Arr(a) == [t |-> "array", v |-> a]
Obj(o) == [t |-> "object", v |-> o]

\* JavaScript truthiness, as used by ||, ?: and filter(category => category).
Truthy(x) ==
    CASE x.t = "undefined" -> FALSE
      [] x.t = "null" -> FALSE
      [] x.t = "nan" -> FALSE
      [] x.t = "string" -> x.v # ""
      [] x.t = "number" -> x.v # 0
      [] x.t = "boolean" -> x.v
      [] OTHER -> TRUE

\* a || b
\* A faulty a || b that prefers its second operand.
OrSecondFirst(a, b) == IF Truthy(b) THEN b ELSE a

Or(a, b) == IF Truthy(a) THEN a ELSE b

\* obj != null  (loose inequality: false for null and undefined only)
NotNullish(x) == x.t \notin {"undefined", "null"}

(***************************************************************************)
(* Strings.                                                                *)
(***************************************************************************)
Ch(s, i) == SubSeq(s, i, i)

Digits == <<"0", "1", "2", "3", "4", "5", "6", "7", "8", "9">>

DigitChars == {"0", "1", "2", "3", "4", "5", "6", "7", "8", "9"}

IsDigit(c) == c \in DigitChars

DigitVal(c) == (CHOOSE i \in 1..10 : Digits[i] = c) - 1

IsDigitString(s) == Len(s) > 0 /\ \A i \in 1..Len(s) : IsDigit(Ch(s, i))

RECURSIVE DigitsToNat(_)
DigitsToNat(s) ==
    IF Len(s) = 0 THEN 0
    ELSE 10 * DigitsToNat(SubSeq(s, 1, Len(s) - 1)) + DigitVal(Ch(s, Len(s)))

\* String.prototype.slice(start) / slice(start, end) with 0-based bounds,
\* a negative end counting from the end of the string.
SliceFrom(s, start) == SubSeq(s, start + 1, Len(s))

Slice(s, start, end) ==
    LET e == IF end < 0 THEN Len(s) + end ELSE IF end > Len(s) THEN Len(s) ELSE end
    IN  IF e <= start THEN "" ELSE SubSeq(s, start + 1, e)

\* String.prototype.substring(0, n)
Substring0(s, n) == SubSeq(s, 1, IF n > Len(s) THEN Len(s) ELSE n)

IsSpace(c) == c \in {" ", "\t", "\n", "\r"}

RECURSIVE TrimLeft(_)
TrimLeft(s) ==
    IF Len(s) > 0 /\ IsSpace(Ch(s, 1)) THEN TrimLeft(SubSeq(s, 2, Len(s))) ELSE s

RECURSIVE TrimRight(_)
TrimRight(s) ==
    IF Len(s) > 0 /\ IsSpace(Ch(s, Len(s)))
    THEN TrimRight(SubSeq(s, 1, Len(s) - 1))
    ELSE s

\* String.prototype.trim()
Trim(s) == TrimRight(TrimLeft(s))

\* 1..n as a sequence.
Indices(n) == [i \in 1..n |-> i]

RECURSIVE Concat(_, _, _)
\* F(lo) \o ... \o F(hi); the range is halved to keep the evaluation shallow.
Concat(F(_), lo, hi) ==
    IF lo > hi THEN ""
    ELSE IF lo = hi THEN F(lo)
    ELSE LET mid == (lo + hi) \div 2
         IN  Concat(F, lo, mid) \o Concat(F, mid + 1, hi)

\* str.split(','): the pieces between the commas of a string
SplitComma(s) ==
    LET commas == SelectSeq(Indices(Len(s)), LAMBDA i : Ch(s, i) = ",")
        from(n) == IF n = 1 THEN 1 ELSE commas[n - 1] + 1
        to(n) == IF n > Len(commas) THEN Len(s) ELSE commas[n] - 1
    IN  [n \in 1..(Len(commas) + 1) |-> SubSeq(s, from(n), to(n))]

(***************************************************************************)
(* Objects: property lookup, assignment and Object.keys, in JavaScript     *)
(* property order (array-index keys ascending, then the other keys in      *)
(* insertion order).                                                       *)
(***************************************************************************)
ObjKeys(o) == [i \in 1..Len(o) |-> o[i][1]]

HasKey(o, k) == \E i \in 1..Len(o) : o[i][1] = k

ObjGet(o, k) ==
    IF HasKey(o, k) THEN o[CHOOSE i \in 1..Len(o) : o[i][1] = k][2] ELSE Undefined

IsIndexKey(k) ==
    /\ Len(k) \in 1..9
    /\ IsDigitString(k)
    /\ (Len(k) = 1 \/ Ch(k, 1) # "0")

\* o[k1] = x1; ...; o[kn] = xn for the pairs <<k, x>> of a sequence, in order:
\* a key keeps the place of its first assignment and the value of its last.
AssignAll(o, pairs) ==
    LET all == o \o pairs
        n == Len(all)
        distinct == Cardinality({all[i][1] : i \in 1..n}) = n
        first(i) == distinct \/ \A j \in 1..(i - 1) : all[j][1] # all[i][1]
        last(i) ==
            IF distinct THEN i
            ELSE CHOOSE j \in i..n :
                     /\ all[j][1] = all[i][1]
                     /\ \A l \in (j + 1)..n : all[l][1] # all[i][1]
        indexKeys == {i \in 1..n : IsIndexKey(all[i][1]) /\ first(i)}
        before(i) ==
            {j \in indexKeys : DigitsToNat(all[j][1]) < DigitsToNat(all[i][1])}
        sorted ==
            [m \in 1..Cardinality(indexKeys) |->
                CHOOSE i \in indexKeys : Cardinality(before(i)) = m - 1]
        others ==
            SelectSeq(Indices(n), LAMBDA i : ~IsIndexKey(all[i][1]) /\ first(i))
        order == sorted \o others
    IN  [m \in 1..Len(order) |-> <<all[order[m]][1], all[last(order[m])][2]>>] \o <<>>

\* o[k] = x
ObjSet(o, k, x) == AssignAll(o, <<<<k, x>>>>)

(***************************************************************************)
(* Host APIs of the server container that the template requires.           *)
(***************************************************************************)
\* getType(value)
getType(x) ==
    CASE x.t = "nan" -> "number"
      [] OTHER -> x.t

RECURSIVE makeString(_)
RECURSIVE JoinStrings(_, _)
\* Array.prototype.join / String(array): null and undefined elements are empty.
JoinStrings(a, i) ==
    IF i > Len(a) THEN ""
    ELSE (IF i > 1 THEN "," ELSE "")
         \o (IF NotNullish(a[i]) THEN makeString(a[i]) ELSE "")
         \o JoinStrings(a, i + 1)

\* makeString(value): the value converted to a string
makeString(x) ==
    CASE x.t = "string" -> x.v
      [] x.t = "number" -> ToString(x.v)
      [] x.t = "boolean" -> (IF x.v THEN "true" ELSE "false")
      [] x.t = "undefined" -> "undefined"
      [] x.t = "null" -> "null"
      [] x.t = "nan" -> "NaN"
      [] x.t = "array" -> JoinStrings(x.v, 1)
      [] OTHER -> "[object Object]"

\* makeNumber(value): the value converted to a number (decimal integers here;
\* surrounding white space is ignored, the empty string is 0, other text NaN)
makeNumber(x) ==
    CASE x.t = "number" -> x
      [] x.t = "nan" -> x
      [] x.t = "null" -> Num(0)
      [] x.t = "boolean" -> Num(IF x.v THEN 1 ELSE 0)
      [] x.t = "string" ->
            LET s == Trim(x.v)
            IN  IF s = "" THEN Num(0)
                ELSE IF IsDigitString(s) /\ Len(s) < 10 THEN Num(DigitsToNat(s))
                ELSE IF Len(s) > 1 /\ Ch(s, 1) = "-" /\ IsDigitString(SliceFrom(s, 1))
                        /\ Len(s) < 11
                     THEN Num(0 - DigitsToNat(SliceFrom(s, 1)))
                ELSE NaN
      [] OTHER -> NaN

\* The text of a character inside a JSON string.
JsonChar(c) ==
    CASE c = "\"" -> "\\\""
      [] c = "\\" -> "\\\\"
      [] c = "\n" -> "\\n"
      [] c = "\r" -> "\\r"
      [] c = "\t" -> "\\t"
      [] OTHER -> c

JsonQuote(s) == "\"" \o Concat(LAMBDA i : JsonChar(Ch(s, i)), 1, Len(s)) \o "\""

RECURSIVE JsonText(_)
\* The JSON text of a value: inside an array undefined serialises as null,
\* and a property whose value is undefined is skipped.
JsonText(x) ==
    CASE x.t = "string" -> JsonQuote(x.v)
      [] x.t = "number" -> ToString(x.v)
      [] x.t = "boolean" -> (IF x.v THEN "true" ELSE "false")
      [] x.t = "array" ->
            "[" \o Concat(LAMBDA i : (IF i > 1 THEN "," ELSE "") \o JsonText(x.v[i]),
                          1, Len(x.v)) \o "]"
      [] x.t = "object" ->
            LET props == SelectSeq(x.v, LAMBDA p : p[2].t # "undefined")
            IN  "{" \o Concat(LAMBDA i : (IF i > 1 THEN "," ELSE "")
                                  \o JsonQuote(props[i][1]) \o ":"
                                  \o JsonText(props[i][2]),
                              1, Len(props)) \o "}"
      [] OTHER -> "null"

\* JSON.stringify(value): undefined for undefined, else the JSON text
\* A faulty JSON.stringify that gives the text undefined for undefined, as
\* string concatenation would.
JSONstringifyText(x) == Str(IF x.t = "undefined" THEN "undefined" ELSE JsonText(x))

JSONstringify(x) == IF x.t = "undefined" THEN Undefined ELSE Str(JsonText(x))

\* The printable ASCII characters: AsciiLow from code 32 (space) to code 95
\* (_), AsciiHigh from code 97 (a) to code 126 (~).
AsciiLow ==
    " !\"#$%&'()*+,-./0123456789:;<=>?@ABCDEFGHIJKLMNOPQRSTUVWXYZ[\\]^_"

AsciiHigh == "abcdefghijklmnopqrstuvwxyz{|}~"

HexUpper == "0123456789ABCDEF"

AsciiChars ==
    {Ch(AsciiLow, i) : i \in 1..Len(AsciiLow)}
        \cup {Ch(AsciiHigh, i) : i \in 1..Len(AsciiHigh)}

CharCode ==
    [c \in AsciiChars |->
        IF \E i \in 1..Len(AsciiLow) : Ch(AsciiLow, i) = c
        THEN 31 + (CHOOSE i \in 1..Len(AsciiLow) : Ch(AsciiLow, i) = c)
        ELSE 96 + (CHOOSE i \in 1..Len(AsciiHigh) : Ch(AsciiHigh, i) = c)]

\* The characters encodeURIComponent leaves as they are: A-Z a-z 0-9 - _ . ! ~ * ' ( )
UriUnreserved ==
    {c \in AsciiChars :
        \/ CharCode[c] \in 48..57
        \/ CharCode[c] \in 65..90
        \/ CharCode[c] \in 97..122
        \/ c \in {"-", "_", ".", "!", "~", "*", "'", "(", ")"}}

PercentCode ==
    [c \in AsciiChars |->
        "%" \o Ch(HexUpper, (CharCode[c] \div 16) + 1)
            \o Ch(HexUpper, (CharCode[c] % 16) + 1)]

\* A character percent-encoded, unless it is unreserved.
EncodeChar(c) == IF c \in UriUnreserved THEN c ELSE PercentCode[c]

\* encodeUriComponent(value): the value as a string, percent-encoded
encodeUriComponent(x) ==
    LET s == makeString(x)
    IN  Concat(LAMBDA i : EncodeChar(Ch(s, i)), 1, Len(s))

HexChars ==
    {"0", "1", "2", "3", "4", "5", "6", "7", "8", "9",
     "a", "b", "c", "d", "e", "f", "A", "B", "C", "D", "E", "F"}

\* testRegex(createRegex('^[0-9a-fA-F]{16}$'), value)
testClientIdRegex(x) ==
    /\ x.t = "string"
    /\ Len(x.v) = 16
    /\ \A i \in 1..16 : Ch(x.v, i) \in HexChars

\* sha256Sync(text, {outputEncoding: 'hex'}): the SHA-256 digest in lower-case
\* hexadecimal, tabulated on the client identifiers of the model.
sha256Sync(s) ==
    CASE s = "" ->
            "e3b0c44298fc1c149afbf4c8996fb92427ae41e4649b934ca495991b7852b855"
      [] s = "GA1.2.3" ->
            "c19389c8d646c3d7069200b382cec6e3ff4a31a2125a4c3a7198abee897fb7fd"
      [] s = "cid-42" ->
            "6606d5918768259d6ad47e9100b32f51aa6b7accf4a8a420f90fd37729cdcc80"
      [] s = "0123456789abcdeg" ->
            "f95db7a3a36b44df7aa39d1e868edf53452e8b2cfc5b303916ec442c33eefe05"
      [] s = "ABCDEF0123456789a" ->
            "61daa012c21efbe69fb3c980fedb6238ae1af5027ca2ff03f28f0065053ec991"
      [] s = "ABCDEF0123456789" ->
            "1c1181e7f8dece465e066361d49886efa49b372e3e029fcdf21b9621e4021366"
      [] s = "0123456789abcdef" ->
            "9f9f5111f7b27a781f1f1ddde5ebc2dd2b796bfc7365c9c28b548e564176929f"

(***************************************************************************)
(* Template constants and functions (src/template.js).                     *)
(*                                                                         *)
(* d is the configuration: a record of JavaScript values, the table fields *)
(* (custom_dims, cvars_event, cvars_session, additionalParameters) being   *)
(* sequences of rows; a table that is not set is the empty sequence, which *)
(* the code treats like an empty table.  ev is the event data object.      *)
(***************************************************************************)
ENDPOINT(d) == "https://" \o makeString(d.instanceName) \o ".piwik.pro/ppms.php"

HEADERS == <<<<"content-type", Str("application/x-www-form-urlencoded")>>>>

LIBRARY_NAME == Str("sgtm")

LIBRARY_VERSION == Str("1.0.3")

POST == "POST"

TIMEOUT == 1000

\* isLoggingEnabled(), reading data.logType and getContainerVersion()
\* A faulty isLoggingEnabled that lets the container mode decide first.
isLoggingEnabledModeFirst(d, cv) ==
    cv.debugMode \/ cv.previewMode \/ d.logType = Str("always")

isLoggingEnabled(d, cv) ==
    LET isDebug == cv.debugMode \/ cv.previewMode
    IN  IF ~Truthy(d.logType) THEN isDebug
        ELSE IF d.logType = Str("no") THEN FALSE
        ELSE IF d.logType = Str("debug") THEN isDebug
        ELSE d.logType = Str("always")

LOGGING_ENABLED(d, cv) == isLoggingEnabled(d, cv)

TRACE_ID(d, cv, header) == IF LOGGING_ENABLED(d, cv) THEN header ELSE Undefined

\* getClientIdHash(), reading eventData.client_id
\* A faulty getClientIdHash that sends the whole digest.
getClientIdHashUntruncated(ev) ==
    LET clientId == ObjGet(ev, "client_id")
    IN  IF ~Truthy(clientId) THEN Undefined
        ELSE IF testClientIdRegex(clientId) THEN clientId
        ELSE Str(sha256Sync(clientId.v))

\* A faulty getClientIdHash that hashes every client id.
getClientIdHashAlways(ev) ==
    LET clientId == ObjGet(ev, "client_id")
    IN  IF ~Truthy(clientId) THEN Undefined
        ELSE Str(Substring0(sha256Sync(clientId.v), 16))

getClientIdHash(ev) ==
    LET clientId == ObjGet(ev, "client_id")
    IN  IF ~Truthy(clientId) THEN Undefined
        ELSE IF testClientIdRegex(clientId) THEN clientId
        ELSE Str(Substring0(sha256Sync(clientId.v), 16))

\* stringToArrayAndTrim(str)
stringToArrayAndTrim(str) ==
    LET parts == SplitComma(str)
    IN  Arr([i \in 1..Len(parts) |-> Str(Trim(parts[i]))])

\* cleanObject(obj)
\* A faulty cleanObject that tests !== undefined and so keeps null.
cleanObjectKeepingNull(o) ==
    AssignAll(<<>>, SelectSeq(o, LAMBDA p : p[2] # Undefined))

\* A faulty cleanObject that keeps the truthy values only.
cleanObjectTruthy(o) == AssignAll(<<>>, SelectSeq(o, LAMBDA p : Truthy(p[2])))

cleanObject(o) == AssignAll(<<>>, SelectSeq(o, LAMBDA p : NotNullish(p[2])))

\* Object.keys(item).reduce(...): the item's dimension* keys, prefix removed
\* A faulty dimension map that keeps the item's keys as they are.
ItemDimensionsUnstripped(item) ==
    LET dims == SelectSeq(item, LAMBDA p : Slice(p[1], 0, 9) = "dimension")
    IN  AssignAll(<<>>, [i \in 1..Len(dims) |-> <<dims[i][1], dims[i][2]>>])

ItemDimensions(item) ==
    LET dims == SelectSeq(item, LAMBDA p : Slice(p[1], 0, 9) = "dimension")
    IN  AssignAll(<<>>, [i \in 1..Len(dims) |-> <<SliceFrom(dims[i][1], 9), dims[i][2]>>])

\* The categories of an item that are truthy, in level order.
\* A faulty category list that drops only the levels that are not set.
ItemCategoriesSet(item) ==
    SelectSeq(<<ObjGet(item, "item_category"), ObjGet(item, "item_category2"),
                ObjGet(item, "item_category3"), ObjGet(item, "item_category4"),
                ObjGet(item, "item_category5")>>, NotNullish)

ItemCategories(item) ==
    SelectSeq(<<ObjGet(item, "item_category"), ObjGet(item, "item_category2"),
                ObjGet(item, "item_category3"), ObjGet(item, "item_category4"),
                ObjGet(item, "item_category5")>>, Truthy)

\* The product array of one item.
\* A faulty product array with price and quantity in each other's place.
ConvertItemSwapped(item) ==
    Arr(<<Str(makeString(ObjGet(item, "item_id"))),
          ObjGet(item, "item_name"),
          Arr(ItemCategories(item)),
          ObjGet(item, "quantity"),
          ObjGet(item, "price"),
          ObjGet(item, "item_brand"),
          ObjGet(item, "item_variant"),
          Obj(ItemDimensions(item))>>)

ConvertItem(item) ==
    Arr(<<Str(makeString(ObjGet(item, "item_id"))),
          ObjGet(item, "item_name"),
          Arr(ItemCategories(item)),
          ObjGet(item, "price"),
          ObjGet(item, "quantity"),
          ObjGet(item, "item_brand"),
          ObjGet(item, "item_variant"),
          Obj(ItemDimensions(item))>>)

IsObject(x) == getType(x) = "object"

\* convertEcommerce(itemArr)
\* A faulty convertEcommerce that takes a value that is not an array for an
\* empty list: (itemArr || []) in place of the getType test.
convertEcommerceLenient(itemArr) ==
    IF getType(itemArr) # "array" THEN Arr(<<>>)
    ELSE LET items == SelectSeq(itemArr.v, IsObject)
         IN  Arr([i \in 1..Len(items) |-> ConvertItem(items[i].v)])

convertEcommerce(itemArr) ==
    IF getType(itemArr) # "array" THEN Undefined
    ELSE LET items == SelectSeq(itemArr.v, IsObject)
         IN  Arr([i \in 1..Len(items) |-> ConvertItem(items[i].v)])

\* The action_name entry of uiParamMap.
\* A faulty action_name that falls back on page_title for every event.
ActionNameAnyTitle(d, ev) ==
    Or(Or(d.action_name, ObjGet(ev, "x-pp-action_name")), ObjGet(ev, "page_title"))

ActionName(d, ev) ==
    Or(Or(d.action_name, ObjGet(ev, "x-pp-action_name")),
       IF d.eventType = Str("pageview") \/ ObjGet(ev, "event_name") = Str("page_view")
       THEN ObjGet(ev, "page_title")
       ELSE Undefined)

\* The ec_products entry of uiParamMap.
\* A faulty ec_products that tries the event's items before the event's
\* pre-formatted value.
EcProductsItemsFirst(d, ev) ==
    Or(Or(JSONstringify(convertEcommerce(d.ec_products)),
          JSONstringify(convertEcommerce(ObjGet(ev, "items")))),
       JSONstringify(ObjGet(ev, "x-pp-ec_products")))

\* A faulty ec_products that takes an empty converted list for no list.
EcProductsEmptyFallsBack(d, ev) ==
    LET own == JSONstringify(convertEcommerce(d.ec_products))
    IN  Or(Or(IF own = Str("[]") THEN Undefined ELSE own,
              JSONstringify(ObjGet(ev, "x-pp-ec_products"))),
           JSONstringify(convertEcommerce(ObjGet(ev, "items"))))

EcProducts(d, ev) ==
    Or(Or(JSONstringify(convertEcommerce(d.ec_products)),
          JSONstringify(ObjGet(ev, "x-pp-ec_products"))),
       JSONstringify(convertEcommerce(ObjGet(ev, "items"))))

\* A faulty flag that lets the event's value go before the configured mode.
AnonymousFlagEventFirst(d, ev, flag) ==
    Or(ObjGet(ev, "x-pp-" \o flag),
       IF d.anonymous = Str(flag) THEN Num(1) ELSE Num(0))

\* The uia and rmip entries of uiParamMap:
\* data.anonymous === flag ? 1 : eventData['x-pp-' + flag] || 0
AnonymousFlag(d, ev, flag) ==
    IF d.anonymous = Str(flag) THEN Num(1)
    ELSE Or(ObjGet(ev, "x-pp-" \o flag), Num(0))

\* const uiParamMap = {...}
UiParamLiteral(d, ev) ==
    << <<"idsite", d.websiteId>>,
       <<"rec", Num(1)>>,
       <<"uia", AnonymousFlag(d, ev, "uia")>>,
       <<"rmip", AnonymousFlag(d, ev, "rmip")>>,
       <<"action_name", ActionName(d, ev)>>,
       <<"url", Or(d.url, ObjGet(ev, "page_location"))>>,
       <<"urlref", Or(d.urlref, ObjGet(ev, "page_referrer"))>>,
       <<"search", Or(d.search, ObjGet(ev, "x-pp-search"))>>,
       <<"search_cats",
         JSONstringify(IF Truthy(d.search_cats)
                       THEN stringToArrayAndTrim(d.search_cats.v)
                       ELSE ObjGet(ev, "x-pp-search_cats"))>>,
       <<"search_count", IF Truthy(d.search_count) THEN makeNumber(d.search_count)
                         ELSE ObjGet(ev, "x-pp-search_count")>>,
       <<"link", Or(d.link, ObjGet(ev, "x-pp-link"))>>,
       <<"download", Or(d.download, ObjGet(ev, "x-pp-download"))>>,
       <<"e_c", Or(d.e_c, ObjGet(ev, "x-pp-e_c"))>>,
       <<"e_a", Or(d.e_a, ObjGet(ev, "x-pp-e_a"))>>,
       <<"e_n", Or(d.e_n, ObjGet(ev, "x-pp-e_n"))>>,
       <<"e_v", Or(d.e_v, ObjGet(ev, "x-pp-e_v"))>>,
       <<"_id", Or(d._id, getClientIdHash(ev))>>,
       <<"uid", Or(d.uid, ObjGet(ev, "user_id"))>>,
       <<"cip", Or(d.cip, ObjGet(ev, "ip_override"))>>,
       <<"e_t", Or(d.e_t, ObjGet(ev, "x-pp-e_t"))>>,
       <<"ec_id", Or(Or(d.ec_id, ObjGet(ev, "x-pp-ec_id")),
                     ObjGet(ev, "transaction_id"))>>,
       <<"revenue", Or(d.revenue, ObjGet(ev, "value"))>>,
       <<"ec_st", Or(d.ec_st, ObjGet(ev, "x-pp-ec_st"))>>,
       <<"ec_sh", Or(d.ec_sh, ObjGet(ev, "x-pp-ec_sh"))>>,
       <<"ec_tx", Or(d.ec_tx, ObjGet(ev, "x-pp-ec_tx"))>>,
       <<"ec_dt", Or(d.ec_dt, ObjGet(ev, "x-pp-ec_dt"))>>,
       <<"ec_products", EcProducts(d, ev)>> >>

\* uiParamMap.ua = ...; uiParamMap.lang = ...; uiParamMap.res = ...
WithCommonParams(ui, ev) ==
    AssignAll(ui, << <<"ua", ObjGet(ev, "user_agent")>>,
                     <<"lang", ObjGet(ev, "language")>>,
                     <<"res", ObjGet(ev, "screen_resolution")>> >>)

\* (data.custom_dims || []).forEach(dim => uiParamMap['dimension' + dim.index] = dim.value)
\* A faulty custom dimension pass that keeps the first row of an index.
WithCustomDimsFirstWins(ui, dims) ==
    AssignAll(ui, [i \in 1..Len(dims) |->
                      <<"dimension" \o makeString(dims[Len(dims) + 1 - i].index),
                        dims[Len(dims) + 1 - i].value>>])

WithCustomDims(ui, dims) ==
    AssignAll(ui, [i \in 1..Len(dims) |->
                      <<"dimension" \o makeString(dims[i].index), dims[i].value>>])

\* cvars.reduce((acc, cur) => { acc[cur.id] = [cur.name, cur.value]; return acc; }, {})
CvarsObject(cvars) ==
    AssignAll(<<>>, [i \in 1..Len(cvars) |->
                        <<makeString(cvars[i].id),
                          Arr(<<cvars[i].name, cvars[i].value>>)>>])

\* The value of uiParamMap.cvar / uiParamMap._cvar.
\* A faulty cvar that lets the event's value go before the configured list.
CvarEventFirst(cvars, inherited) ==
    JSONstringify(IF inherited # Undefined \/ Len(cvars) = 0 THEN inherited
                  ELSE Obj(CvarsObject(cvars)))

Cvar(cvars, inherited) ==
    JSONstringify(IF Len(cvars) > 0 THEN Obj(CvarsObject(cvars)) ELSE inherited)

\* (data.additionalParameters || []).forEach(param => uiParamMap[param.key] = param.value)
WithAdditionalParameters(ui, params) ==
    AssignAll(ui, [i \in 1..Len(params) |->
                      <<makeString(params[i].key), params[i].value>>])

\* uiParamMap once the script has made all its assignments to it.
BuildUiParamMap(d, ev) ==
    WithAdditionalParameters(
        AssignAll(WithCustomDims(WithCommonParams(UiParamLiteral(d, ev), ev),
                                 d.custom_dims),
                  << <<"cvar", Cvar(d.cvars_event, ObjGet(ev, "x-pp-cvar"))>>,
                     <<"_cvar", Cvar(d.cvars_session, ObjGet(ev, "x-pp-_cvar"))>> >>),
        d.additionalParameters)

\* Object.keys(eventData).filter(x-pp- keys).forEach(requestBody[name] = value)
PiwikParams(ev) ==
    LET pp == SelectSeq(ev, LAMBDA p : Slice(p[1], 0, 5) = "x-pp-")
    IN  AssignAll(<<>>, [i \in 1..Len(pp) |-> <<SliceFrom(pp[i][1], 5), pp[i][2]>>])

\* Object.keys(uiParamMap).forEach(key => requestBody[key] = uiParamMap[key])
\* A faulty overwrite that leaves a key alone when the map's value is not set.
OverwriteSetOnly(body, ui) == AssignAll(body, SelectSeq(ui, LAMBDA p : NotNullish(p[2])))

Overwrite(body, ui) == AssignAll(body, ui)

\* requestBody.ts_n = LIBRARY_NAME; requestBody.ts_v = LIBRARY_VERSION
WithLibrary(body) ==
    AssignAll(body, << <<"ts_n", LIBRARY_NAME>>, <<"ts_v", LIBRARY_VERSION>> >>)

\* requestBody before cleanObject
RawRequestBody(ev, ui) == WithLibrary(Overwrite(PiwikParams(ev), ui))

\* requestBody after cleanObject
BuildRequestBody(ev, ui) == cleanObject(RawRequestBody(ev, ui))

\* const postBody = Object.keys(requestBody).reduce(...).slice(0, -1)
\* A faulty postBody that appends the values as they are, not encoded.
PostBodyUnencoded(body) ==
    Slice(Concat(LAMBDA i : body[i][1] \o "=" \o makeString(body[i][2]) \o "&",
                 1, Len(body)),
          0, -1)

PostBody(body) ==
    Slice(Concat(LAMBDA i : body[i][1] \o "=" \o encodeUriComponent(body[i][2]) \o "&",
                 1, Len(body)),
          0, -1)

(***************************************************************************)
(* The host API calls the script and the then-callback make.               *)
(***************************************************************************)
Call(api, args) == [api |-> api, args |-> args]

\* requestBody.action_name || 'page_view'
EventName(body) == Or(ObjGet(body, "action_name"), Str("page_view"))

\* logToConsole(JSON.stringify({... Type: 'Request' ...}))
RequestLog(d, cv, header, body) ==
    Call("logToConsole",
         <<JSONstringify(Obj(<< <<"Name", Str("PiwikPro")>>,
                                <<"Type", Str("Request")>>,
                                <<"TraceId", TRACE_ID(d, cv, header)>>,
                                <<"EventName", EventName(body)>>,
                                <<"RequestMethod", Str("POST")>>,
                                <<"RequestUrl", Str(ENDPOINT(d))>>,
                                <<"RequestHeaders", Obj(HEADERS)>>,
                                <<"RequestBody", Obj(body)>> >>))>>)

\* sendHttpRequest(ENDPOINT, {headers, method, timeout}, postBody)
SendHttpRequest(d, body) ==
    Call("sendHttpRequest",
         <<ENDPOINT(d),
           [headers |-> HEADERS, method |-> POST, timeout |-> TIMEOUT],
           PostBody(body)>>)

\* logToConsole(JSON.stringify({... Type: 'Response' ...}))
ResponseLog(d, cv, header, body, resp) ==
    Call("logToConsole",
         <<JSONstringify(Obj(<< <<"Name", Str("PiwikPro")>>,
                                <<"Type", Str("Response")>>,
                                <<"TraceId", TRACE_ID(d, cv, header)>>,
                                <<"EventName", EventName(body)>>,
                                <<"ResponseStatusCode", Num(resp.statusCode)>>,
                                <<"ResponseHeaders", Obj(resp.headers)>>,
                                <<"ResponseBody", resp.body>> >>))>>)

\* if (response.statusCode < 400) data.gtmOnSuccess() else data.gtmOnFailure()
\* A faulty signal that takes status 400 for a success.
SignalUpTo400(statusCode) ==
    IF statusCode <= 400 THEN Call("gtmOnSuccess", <<>>) ELSE Call("gtmOnFailure", <<>>)

Signal(statusCode) ==
    IF statusCode < 400 THEN Call("gtmOnSuccess", <<>>) ELSE Call("gtmOnFailure", <<>>)

\* A faulty script that writes the Request record after it has sent the
\* request.
ScriptCallsLogLast(d, cv, header, body) ==
    <<SendHttpRequest(d, body)>>
        \o (IF LOGGING_ENABLED(d, cv) THEN <<RequestLog(d, cv, header, body)>> ELSE <<>>)

\* The calls of the script, from the first statement to sendHttpRequest.
ScriptCalls(d, cv, header, body) ==
    (IF LOGGING_ENABLED(d, cv) THEN <<RequestLog(d, cv, header, body)>> ELSE <<>>)
        \o <<SendHttpRequest(d, body)>>

\* A faulty then-callback that has the status, the header and the signal
\* inside the block that logging guards.
ThenCallsGuarded(d, cv, header, body, resp) ==
    IF LOGGING_ENABLED(d, cv)
    THEN <<ResponseLog(d, cv, header, body, resp),
           Call("setResponseStatus", <<resp.statusCode>>),
           Call("setResponseHeader",
                <<"cache-control", ObjGet(resp.headers, "cache-control")>>),
           Signal(resp.statusCode)>>
    ELSE <<>>

\* A faulty then-callback that signals the host before it writes the status
\* and the header.
ThenCallsSignalFirst(d, cv, header, body, resp) ==
    (IF LOGGING_ENABLED(d, cv) THEN <<ResponseLog(d, cv, header, body, resp)>>
     ELSE <<>>)
        \o <<Signal(resp.statusCode),
             Call("setResponseStatus", <<resp.statusCode>>),
             Call("setResponseHeader",
                  <<"cache-control", ObjGet(resp.headers, "cache-control")>>)>>

\* A faulty then-callback that sends the request again after a failure.
ThenCallsRetrying(d, cv, header, body, resp) ==
    (IF LOGGING_ENABLED(d, cv) THEN <<ResponseLog(d, cv, header, body, resp)>>
     ELSE <<>>)
        \o <<Call("setResponseStatus", <<resp.statusCode>>),
             Call("setResponseHeader",
                  <<"cache-control", ObjGet(resp.headers, "cache-control")>>),
             Signal(resp.statusCode)>>
        \o (IF resp.statusCode >= 400 THEN <<SendHttpRequest(d, body)>> ELSE <<>>)

\* The calls of the then-callback.
ThenCalls(d, cv, header, body, resp) ==
    (IF LOGGING_ENABLED(d, cv) THEN <<ResponseLog(d, cv, header, body, resp)>>
     ELSE <<>>)
        \o <<Call("setResponseStatus", <<resp.statusCode>>),
             Call("setResponseHeader",
                  <<"cache-control", ObjGet(resp.headers, "cache-control")>>),
             Signal(resp.statusCode)>>

(***************************************************************************)
(* Inputs of the model: configurations and events.                         *)
(***************************************************************************)
MaxParams == 1

MaxItems == 1

MaxRows == 2

Present(p) == p[2].t # "undefined"

\* An event data object: the listed pairs whose value is given.
EventOf(pairs) == SelectSeq(pairs, Present)

\* Sequences over S of length at most n.
SeqsUpTo(S, n) == UNION {[1..k -> S] : k \in 0..n}

TextFields ==
    {"action_name", "url", "urlref", "search", "search_cats", "search_count",
     "link", "download", "e_c", "e_a", "e_n", "e_v", "_id", "uid", "cip", "e_t",
     "ec_id", "revenue", "ec_st", "ec_sh", "ec_tx", "ec_dt"}

DefaultData ==
    [k \in TextFields |-> Undefined]
        @@ [instanceName |-> Str("acme"),
            websiteId |-> Str("0a1b2c3d-0000-4000-8000-00000000beef"),
            anonymous |-> Str("inherit"),
            eventType |-> Str("inherit"),
            ec_products |-> Undefined,
            custom_dims |-> <<>>,
            cvars_event |-> <<>>,
            cvars_session |-> <<>>,
            additionalParameters |-> <<>>,
            logType |-> Str("debug")]

\* The fields resolved as data.f || eventData[source], with the event key
\* each falls back on.
FieldSource ==
    [url |-> "page_location", urlref |-> "page_referrer", search |-> "x-pp-search",
     search_count |-> "x-pp-search_count", link |-> "x-pp-link",
     download |-> "x-pp-download", e_c |-> "x-pp-e_c", e_a |-> "x-pp-e_a",
     e_n |-> "x-pp-e_n", e_v |-> "x-pp-e_v", uid |-> "user_id",
     cip |-> "ip_override", e_t |-> "x-pp-e_t", ec_id |-> "x-pp-ec_id",
     revenue |-> "value", ec_st |-> "x-pp-ec_st", ec_sh |-> "x-pp-ec_sh",
     ec_tx |-> "x-pp-ec_tx", ec_dt |-> "x-pp-ec_dt",
     action_name |-> "x-pp-action_name"]

SourcedFields == DOMAIN FieldSource

\* The event type whose selection enables a field in the template's form
\* ("" for a field that is always enabled).
EnabledBy(f) ==
    CASE f = "action_name" -> "pageview"
      [] f = "link" -> "link"
      [] f = "download" -> "download"
      [] f \in {"e_c", "e_a", "e_n", "e_v"} -> "custom"
      [] f \in {"search", "search_cats", "search_count"} -> "search"
      [] f \in {"e_t", "ec_id", "revenue", "ec_st", "ec_sh", "ec_tx", "ec_dt",
                "ec_products"} -> "ecommerce"
      [] OTHER -> ""

\* The values a configuration field takes: not set, empty, or a text.
ConfigValues(f) ==
    CASE f = "search_count" -> {Undefined, Str(""), Str("7"), Str("07")}
      [] f = "e_t" -> {Undefined, Str("order")}
      [] OTHER -> {Undefined, Str(""), Str("cfg " \o f)}

\* The values an event key takes: absent, null, empty, zero, or a text.
EventValues == {Undefined, Null, Str(""), Num(0), Str("evt")}

\* A configuration with field f set to x, the event type being the one that
\* enables f.
WithField(d, f, x) ==
    IF x = Undefined THEN d
    ELSE IF EnabledBy(f) = "" THEN [d EXCEPT ![f] = x]
    ELSE [d EXCEPT ![f] = x, !.eventType = Str(EnabledBy(f))]

Row(k, x) == [key |-> Str(k), value |-> x]

\* One resolver field: its configuration value, its event value, the same
\* name as a vendor-prefixed event key, and a free-form override of it.
InitField ==
    \E f \in SourcedFields :
    \E dv \in ConfigValues(f), evv \in EventValues :
    \E pp \in {Undefined, Str("pp")}, ov \in {Undefined, Str(""), Str("ov")} :
        /\ data = [WithField(DefaultData, f, dv) EXCEPT
                      !.additionalParameters =
                          IF ov = Undefined THEN <<>> ELSE <<Row(f, ov)>>]
        /\ eventData =
              EventOf(<<<<FieldSource[f], evv>>,
                        <<"x-pp-" \o f,
                          IF FieldSource[f] = "x-pp-" \o f THEN Undefined ELSE pp>>,
                        <<"transaction_id",
                          IF f = "ec_id" THEN pp ELSE Undefined>>,
                        <<"user_agent", Str("UA/1.0")>>>>)
        /\ containerVersion = [debugMode |-> FALSE, previewMode |-> FALSE]
        /\ traceHeader = Undefined

ConfigIds == {Undefined, Str(""), Str("0123456789abcdef"), Str("visitor-1")}

ClientIds ==
    {Undefined, Str(""), Str("GA1.2.3"), Str("cid-42"), Str("ABCDEF0123456789"),
     Str("0123456789abcdeg"), Str("ABCDEF0123456789a")}

\* The visitor id: the configuration's _id and the event's client_id.
InitVisitor ==
    \E id \in ConfigIds, cid \in ClientIds, pp \in {Undefined, Str("pp")} :
    \E log \in {Str("no"), Str("always")} :
        /\ data = [DefaultData EXCEPT !._id = id, !.logType = log]
        /\ eventData = EventOf(<<<<"client_id", cid>>, <<"x-pp-_id", pp>>>>)
        /\ containerVersion = [debugMode |-> FALSE, previewMode |-> FALSE]
        /\ traceHeader = Str("trace-1")

Item1 ==
    Obj(<< <<"item_id", Num(1)>>, <<"item_name", Str("A")>>, <<"price", Num(9)>>,
           <<"quantity", Num(2)>>, <<"item_category", Str("X")>> >>)

Item2 ==
    Obj(<< <<"item_id", Str("sku-2")>>, <<"item_name", Str("B")>>,
           <<"item_category", Str("")>>, <<"item_category3", Str("Z")>>,
           <<"item_brand", Str("Br")>>, <<"dimension7", Str("d7")>>,
           <<"dimensions", Num(0)>> >>)

\* The values of data.ec_products and eventData.items: not set, not an array,
\* or an array of items and other entries.
\* An item with all five category levels, some of them falsy, and with keys
\* around the dimension prefix.
Item3 ==
    Obj(<< <<"item_id", Str("sku-3")>>, <<"item_category", Str("A")>>,
           <<"item_category2", Num(0)>>, <<"item_category3", Null>>,
           <<"item_category4", Str("D")>>, <<"item_category5", Str("E")>>,
           <<"dimension10", Str("ten")>>, <<"dimension", Str("bare")>>,
           <<"Dimension1", Str("cap")>>, <<"xdimension2", Str("x")>>,
           <<"dimension7", Num(7)>> >>)

\* An item whose five levels are all set.
Item4 ==
    Obj(<< <<"item_id", Str("sku-4")>>, <<"item_category5", Str("e")>>,
           <<"item_category4", Str("d")>>, <<"item_category3", Str("c")>>,
           <<"item_category2", Str("b")>>, <<"item_category", Str("a")>> >>)

LeveledItems == Arr(<<Item3, Item4>>)

\* An array in which items stand between entries that are not objects.
MixedItems == Arr(<<Str("junk"), Item1, Null, Item2>>)

ItemLists ==
    {Undefined, Null, Str("item"), Num(5), Item1, MixedItems, LeveledItems}
        \cup {Arr(a) : a \in SeqsUpTo({Item1, Item2, Str("junk")}, MaxItems)}

PreFormatted ==
    {Undefined, Null, Str(""), Arr(<<Arr(<<Str("9"), Str("P")>>)>>),
     Str("[[\"8\",\"Q\"]]")}

\* The products: the configuration's list, the event's pre-formatted value
\* and the event's items.
InitProducts ==
    \E cfg \in ItemLists, pre \in PreFormatted, items \in ItemLists :
        /\ data = [DefaultData EXCEPT
                      !.ec_products = cfg,
                      !.eventType = IF cfg = Undefined THEN Str("inherit")
                                    ELSE Str("ecommerce")]
        /\ eventData = EventOf(<<<<"x-pp-ec_products", pre>>, <<"items", items>>>>)
        /\ containerVersion = [debugMode |-> FALSE, previewMode |-> FALSE]
        /\ traceHeader = Undefined

ParamKeys ==
    {"idsite", "rec", "ts_n", "ts_v", "cvar", "url", "dimension1", "custom", "a&b"}

ParamRows == {Row(k, x) : k \in ParamKeys, x \in {Str(""), Str("ov")}}

\* Tables of additional parameters; the form keeps the keys unique.
ParamTables ==
    {t \in SeqsUpTo(ParamRows, MaxParams) :
        \A i, j \in 1..Len(t) : i # j => t[i].key # t[j].key}

\* The free-form overrides, against the other sources of the same keys.
InitOverrides ==
    \E t \in ParamTables :
    \E others \in BOOLEAN, log \in {Str("no"), Str("always")} :
        /\ data = [DefaultData EXCEPT
                      !.additionalParameters = t,
                      !.logType = log,
                      !.url = IF others THEN Str("cfg url") ELSE Undefined,
                      !.custom_dims =
                          IF others THEN <<[index |-> Str("1"), value |-> Str("cd")]>>
                          ELSE <<>>,
                      !.cvars_event =
                          IF others
                          THEN <<[id |-> Str("1"), name |-> Str("n"), value |-> Str("v")]>>
                          ELSE <<>>]
        /\ eventData =
              IF others
              THEN <<<<"x-pp-ts_n", Str("evt")>>, <<"x-pp-ts_v", Str("evt")>>,
                     <<"x-pp-idsite", Str("evt")>>, <<"x-pp-custom", Str("evt")>>,
                     <<"x-pp-rec", Num(0)>>, <<"page_location", Str("evt")>>>>
              ELSE <<>>
        /\ containerVersion = [debugMode |-> FALSE, previewMode |-> FALSE]
        /\ traceHeader = Undefined

\* The action name: the configuration's (a field of the page view type), the
\* event's vendor-prefixed one, and the page title of page views and others.
InitAction ==
    \E an \in {Undefined, Str(""), Str("cfg name")} :
    \E et \in {Str("inherit"), Str("pageview"), Str("custom")} :
    \E pp \in {Undefined, Str(""), Num(0), Str("evt")} :
    \E en \in {Undefined, Str("page_view"), Str("purchase")} :
    \E title \in {Undefined, Str(""), Str("Home")} :
        /\ an # Undefined => et = Str("pageview")
        /\ data = [DefaultData EXCEPT !.action_name = an, !.eventType = et]
        /\ eventData = EventOf(<<<<"event_name", en>>, <<"page_title", title>>,
                                  <<"x-pp-action_name", pp>>>>)
        /\ containerVersion = [debugMode |-> FALSE, previewMode |-> FALSE]
        /\ traceHeader = Undefined

DimRows == {[index |-> Str(n), value |-> x] : n \in {"1", "2"}, x \in {Str("cd"), Str("")}}

\* The custom dimensions: the configuration's table (two cells that hold
\* variables can resolve to the same index), the event's value for a
\* configured and for another index, and a free-form override.
InitDims ==
    \E dims \in SeqsUpTo(DimRows, MaxRows) :
    \E e1 \in {Undefined, Str("evt")}, e3 \in {Undefined, Str("evt3")} :
    \E ov \in {Undefined, Str("ov")} :
        /\ data = [DefaultData EXCEPT
                      !.custom_dims = dims,
                      !.additionalParameters =
                          IF ov = Undefined THEN <<>> ELSE <<Row("dimension1", ov)>>]
        /\ eventData = EventOf(<<<<"x-pp-dimension1", e1>>, <<"x-pp-dimension3", e3>>>>)
        /\ containerVersion = [debugMode |-> FALSE, previewMode |-> FALSE]
        /\ traceHeader = Undefined

CvarRows ==
    {[id |-> Str(n), name |-> Str("n" \o n), value |-> x] :
        n \in {"1", "2"}, x \in {Str("v"), Str("w")}}

\* A custom variable object as the client maps it.
EventCvars == Obj(<<<<"1", Arr(<<Str("en"), Str("ev")>>)>>>>)

\* The custom variables: the configuration's tables of the two scopes and
\* the event's pre-mapped objects.
InitCvars ==
    \E cvars \in SeqsUpTo(CvarRows, MaxRows) :
    \E session \in SeqsUpTo({[id |-> Str("5"), name |-> Str("s"), value |-> Str("t")]}, 1) :
    \E ec \in {Undefined, Null, EventCvars}, es \in {Undefined, EventCvars} :
        /\ data = [DefaultData EXCEPT !.cvars_event = cvars, !.cvars_session = session]
        /\ eventData = EventOf(<<<<"x-pp-cvar", ec>>, <<"x-pp-_cvar", es>>>>)
        /\ containerVersion = [debugMode |-> FALSE, previewMode |-> FALSE]
        /\ traceHeader = Undefined

\* The anonymisation mode against the flags the event carries.
InitAnonymous ==
    \E mode \in {Str("inherit"), Str("rmip"), Str("uia")} :
    \E uia \in {Undefined, Null, Num(0), Num(1), Str(""), Str("1")} :
    \E rmip \in {Undefined, Num(0), Num(1)}, ov \in {Undefined, Str("ov")} :
        /\ data = [DefaultData EXCEPT
                      !.anonymous = mode,
                      !.additionalParameters =
                          IF ov = Undefined THEN <<>> ELSE <<Row("uia", ov)>>]
        /\ eventData = EventOf(<<<<"x-pp-uia", uia>>, <<"x-pp-rmip", rmip>>>>)
        /\ containerVersion = [debugMode |-> FALSE, previewMode |-> FALSE]
        /\ traceHeader = Undefined

LogTypes == {Undefined, Str("no"), Str("debug"), Str("always"), Str("other")}

\* The logging setting and the container's mode.
InitLogging ==
    \E log \in LogTypes, dbg \in BOOLEAN, prev \in BOOLEAN :
    \E header \in {Undefined, Str("trace-1")} :
    \E name \in {Str("acme"), Str("my-instance")} :
        /\ data = [DefaultData EXCEPT !.logType = log, !.instanceName = name]
        /\ eventData = <<<<"event_name", Str("page_view")>>,
                         <<"page_title", Str("Home")>>>>
        /\ containerVersion = [debugMode |-> dbg, previewMode |-> prev]
        /\ traceHeader = header

Init ==
    /\ \/ InitField
       \/ InitVisitor
       \/ InitProducts
       \/ InitOverrides
       \/ InitLogging
       \/ InitAction
       \/ InitDims
       \/ InitCvars
       \/ InitAnonymous
    /\ pc = "start"
    /\ uiParamMap = <<>>
    /\ requestBody = <<>>
    /\ response = Undefined
    /\ hostCalls = <<>>

(***************************************************************************)
(* The invocation.                                                         *)
(***************************************************************************)
StatusCodes == {200, 399, 400, 404}

CacheControls == {Undefined, Str("no-store")}

Responses ==
    {[statusCode |-> sc,
      headers |-> EventOf(<<<<"cache-control", cc>>>>),
      body |-> Str("")] : sc \in StatusCodes, cc \in CacheControls}

\* The script runs from its first statement to the sendHttpRequest call.
Run ==
    /\ pc = "start"
    /\ LET ui == BuildUiParamMap(data, eventData)
           body == BuildRequestBody(eventData, ui)
       IN  /\ uiParamMap' = ui
           /\ requestBody' = body
           /\ hostCalls' = hostCalls
                  \o ScriptCalls(data, containerVersion, traceHeader, body)
    /\ pc' = "pending"
    /\ UNCHANGED <<inputs, response>>

\* The promise resolves with a response and the then-callback runs.
OnResponse ==
    /\ pc = "pending"
    /\ \E resp \in Responses :
        /\ response' = resp
        /\ hostCalls' = hostCalls
               \o ThenCalls(data, containerVersion, traceHeader, requestBody, resp)
    /\ pc' = "done"
    /\ UNCHANGED <<inputs, uiParamMap, requestBody>>

\* The promise is rejected (a timeout, a failed request): the script
\* registers no rejection handler, so nothing runs.
OnRejection ==
    /\ pc = "pending"
    /\ pc' = "rejected"
    /\ UNCHANGED <<inputs, uiParamMap, requestBody, response, hostCalls>>

Next == Run \/ OnResponse \/ OnRejection

Spec == Init /\ [][Next]_vars
(***************************************************************************)
(* Properties.                                                             *)
(***************************************************************************)
\* The state the script leaves when it has handed the request to the
\* transport; nothing that follows changes the inputs, uiParamMap or
\* requestBody, or removes a call from the history.
JustSent == pc = "pending"

CallsTo(api) == SelectSeq(hostCalls, LAMBDA c : c.api = api)

\* The body handed to sendHttpRequest.
SentBody == CallsTo("sendHttpRequest")[1].args[3]

\* The segments of a text between its '&' separators, as <<first, last>>
\* positions.
Segments(q) ==
    LET amps == SelectSeq(Indices(Len(q)), LAMBDA i : Ch(q, i) = "&")
    IN  [n \in 1..(Len(amps) + 1) |->
            <<IF n = 1 THEN 1 ELSE amps[n - 1] + 1,
              IF n > Len(amps) THEN Len(q) ELSE amps[n] - 1>>] \o <<>>

\* The key of a segment: the text before its first '=', the whole segment
\* when it has none.
SegmentKey(q, seg) ==
    LET eqs == {i \in seg[1]..seg[2] : Ch(q, i) = "="}
    IN  IF eqs = {} THEN SubSeq(q, seg[1], seg[2])
        ELSE SubSeq(q, seg[1], (CHOOSE i \in eqs : \A j \in eqs : i <= j) - 1)

\* The keys a receiver reads in an '&'-joined list of key=value pairs.
QueryKeys(q) ==
    LET segs == Segments(q)
    IN  IF q = "" THEN {} ELSE {SegmentKey(q, segs[n]) : n \in 1..Len(segs)}

\* A free-form override names key k.
Overridden(k) ==
    \E i \in 1..Len(data.additionalParameters) :
        makeString(data.additionalParameters[i].key) = k

\* A configuration value that is present and not empty.
NonEmpty(x) == x \notin {Undefined, Null, Str("")}

ConfigFields ==
    {"url", "urlref", "search", "search_count", "link", "download", "e_c", "e_a",
     "e_n", "e_v", "_id", "uid", "cip", "e_t", "ec_id", "revenue", "ec_st",
     "ec_sh", "ec_tx", "ec_dt", "action_name"}

\* C1 as stated: a configuration value that is present and not empty is the
\* value of its field in the parameter set, whatever else is configured.
C1_ConfigValueAlways ==
    pc # "start" =>
        \A f \in ConfigFields :
            NonEmpty(data[f]) => ObjGet(requestBody, f) = data[f]

\* C1, amended: a configuration value that is a non-empty string is the value
\* of its field in the parameter set (search_count: its conversion to a
\* number), never the event's, unless a free-form override names the field.
C1_ConfigValueWins ==
    pc # "start" =>
        \A f \in ConfigFields :
            (NonEmpty(data[f]) /\ data[f].t = "string" /\ ~Overridden(f)) =>
                ObjGet(requestBody, f) =
                    IF f = "search_count" THEN makeNumber(data[f]) ELSE data[f]

C1_Witness ==
    /\ pc # "start"
    /\ data.url = Str("cfg url")
    /\ ObjGet(eventData, "page_location") = Str("evt")
    /\ ~Overridden("url")
    /\ ObjGet(requestBody, "url") = Str("cfg url")

\* C2 as stated: every free-form override {key, value} is the value of key in
\* the final parameter set, whatever another source produced for that key.
C2_OverrideAlwaysWins ==
    pc # "start" =>
        \A i \in 1..Len(data.additionalParameters) :
            ObjGet(requestBody, makeString(data.additionalParameters[i].key))
                = data.additionalParameters[i].value

\* C3: after the purge no key of the parameter set maps to null or undefined,
\* and no key whose value was null or undefined before the purge has a pair
\* in the body that is sent.
C3_NoNullishSent ==
    JustSent =>
        /\ \A i \in 1..Len(requestBody) : requestBody[i][2].t \notin {"undefined", "null"}
        /\ LET raw == RawRequestBody(eventData, uiParamMap)
               purged == {raw[i][1] : i \in {j \in 1..Len(raw) :
                                                raw[j][2].t \in {"undefined", "null"}}}
           IN  purged \cap QueryKeys(SentBody) = {}

C3_Witness ==
    /\ pc # "start"
    /\ ObjGet(eventData, "page_location") = Null
    /\ ObjGet(uiParamMap, "url") = Null
    /\ ~HasKey(requestBody, "url")
    /\ "url" \notin QueryKeys(SentBody)
    /\ "idsite" \in QueryKeys(SentBody)

\* C4: once a response has been handled exactly one host signal has been
\* raised, once: gtmOnSuccess for a status below 400, gtmOnFailure otherwise;
\* none is raised before a response.
C4_OneSignal ==
    /\ pc \in {"start", "pending"} =>
          Len(CallsTo("gtmOnSuccess")) + Len(CallsTo("gtmOnFailure")) = 0
    /\ pc = "done" =>
          /\ Len(CallsTo("gtmOnSuccess")) + Len(CallsTo("gtmOnFailure")) = 1
          /\ response.statusCode < 400 => Len(CallsTo("gtmOnSuccess")) = 1
          /\ response.statusCode >= 400 => Len(CallsTo("gtmOnFailure")) = 1

C4_Witness ==
    /\ pc = "done"
    /\ response.statusCode = 400
    /\ Len(CallsTo("gtmOnFailure")) = 1
    /\ Len(CallsTo("gtmOnSuccess")) = 0

\* C5 as stated: when the sendHttpRequest promise is rejected the invocation
\* reports failure to the host.
C5_RejectionSignalsFailure ==
    pc = "rejected" => Len(CallsTo("gtmOnFailure")) = 1

\* C6: the transport is called exactly once per invocation, as a POST to
\* https://{instanceName}.piwik.pro/ppms.php with the form content type and
\* timeout 1000, and never again whatever the outcome.
C6_OneRequest ==
    /\ pc = "start" => Len(CallsTo("sendHttpRequest")) = 0
    /\ pc # "start" =>
          /\ Len(CallsTo("sendHttpRequest")) = 1
          /\ LET req == CallsTo("sendHttpRequest")[1]
             IN  /\ req.args[1] = "https://" \o data.instanceName.v \o ".piwik.pro/ppms.php"
                 /\ req.args[2].method = "POST"
                 /\ req.args[2].timeout = 1000
                 /\ req.args[2].headers =
                        <<<<"content-type", Str("application/x-www-form-urlencoded")>>>>

C6_Witness ==
    /\ pc = "done"
    /\ response.statusCode = 404
    /\ data.instanceName = Str("my-instance")
    /\ Len(CallsTo("sendHttpRequest")) = 1
    /\ CallsTo("sendHttpRequest")[1].args[1] = "https://my-instance.piwik.pro/ppms.php"

\* C7 as stated: for every event whose client_id does not match
\* ^[0-9a-fA-F]{16}$ the visitor id is the first 16 hexadecimal characters of
\* SHA-256(client_id).
C7_HashAlways ==
    pc # "start" =>
        LET cid == ObjGet(eventData, "client_id")
        IN  (cid.t = "string" /\ ~testClientIdRegex(cid)) =>
                ObjGet(requestBody, "_id") = Str(SubSeq(sha256Sync(cid.v), 1, 16))

\* C7, amended: for every event whose client_id is a non-empty string that does
\* not match ^[0-9a-fA-F]{16}$, when the configuration sets no _id and no
\* free-form override names _id, the visitor id is the first 16 hexadecimal
\* characters of SHA-256(client_id): a function of the identifier alone.
C7_HashOfClientId ==
    pc # "start" =>
        LET cid == ObjGet(eventData, "client_id")
        IN  /\ (/\ cid.t = "string"
                /\ cid.v # ""
                /\ ~testClientIdRegex(cid)
                /\ ~NonEmpty(data._id)
                /\ ~Overridden("_id")) =>
                   /\ ObjGet(requestBody, "_id") = Str(SubSeq(sha256Sync(cid.v), 1, 16))
                   /\ Len(ObjGet(requestBody, "_id").v) = 16
            /\ (cid = Str("GA1.2.3") /\ ~NonEmpty(data._id) /\ ~Overridden("_id")) =>
                   ObjGet(requestBody, "_id") = Str("c19389c8d646c3d7")

C7_Witness ==
    /\ pc # "start"
    /\ ObjGet(eventData, "client_id") = Str("0123456789abcdeg")
    /\ data._id = Undefined
    /\ ObjGet(requestBody, "_id") = Str("f95db7a3a36b44df")

\* C8 as stated: a configuration _id that does not match the 16-character
\* hexadecimal pattern is not used; the visitor id then comes from the
\* event's client_id, or is absent.
C8_UnmatchedConfigIdUnused ==
    (/\ pc # "start"
     /\ NonEmpty(data._id)
     /\ ~testClientIdRegex(data._id)
     /\ ~Overridden("_id")) =>
        ObjGet(requestBody, "_id") = getClientIdHash(eventData)

\* C9 as stated: ts_n and ts_v carry their constants unless a free-form
\* override names them, and then they carry the override's value.
C9_LibraryFieldsOverridable ==
    pc # "start" =>
        \A k \in {"ts_n", "ts_v"} :
            /\ ~Overridden(k) =>
                  ObjGet(requestBody, k) = (IF k = "ts_n" THEN Str("sgtm") ELSE Str("1.0.3"))
            /\ \A i \in 1..Len(data.additionalParameters) :
                  makeString(data.additionalParameters[i].key) = k =>
                      ObjGet(requestBody, k) = data.additionalParameters[i].value

\* A value that is a non-empty JSON text.
IsJson(x) == x.t = "string" /\ x.v # ""

\* C10: ec_products is the first of (a) the converted configuration list,
\* (b) the event's x-pp-ec_products, (c) the converted event items whose JSON
\* serialisation is a non-empty string; later candidates do not matter.
C10_FirstCandidateWins ==
    pc # "start" =>
        LET a == JSONstringify(convertEcommerce(data.ec_products))
            b == JSONstringify(ObjGet(eventData, "x-pp-ec_products"))
            c == JSONstringify(convertEcommerce(ObjGet(eventData, "items")))
            chosen == ObjGet(requestBody, "ec_products")
        IN  ~Overridden("ec_products") =>
                /\ IsJson(a) => chosen = a
                /\ (~IsJson(a) /\ IsJson(b)) => chosen = b
                /\ (~IsJson(a) /\ ~IsJson(b)) => chosen = c

C10_Witness ==
    /\ pc # "start"
    /\ data.ec_products = Str("item")
    /\ ObjGet(eventData, "x-pp-ec_products") = Arr(<<Arr(<<Str("9"), Str("P")>>)>>)
    /\ ObjGet(eventData, "items") = Arr(<<Item1>>)
    /\ ObjGet(requestBody, "ec_products") = Str("[[\"9\",\"P\"]]")
\* The entries of an array that are objects, in order.
ObjectEntries(x) == SelectSeq(x.v, LAMBDA e : e.t = "object")

\* The two inputs the script hands to the ecommerce converter.
ConverterInputs == {data.ec_products, ObjGet(eventData, "items")}

\* C11: given an array the converter returns one 8-position tuple per entry
\* that is an object, in input order, and drops the other entries; a tuple is
\* [string of item_id, item_name, category list, price, quantity, item_brand,
\* item_variant, dimension map] with name, price, quantity, brand and variant
\* as they are in the item (undefined when absent); the configuration's list
\* reaches the request as the JSON text of these tuples.
C11_ConverterTuples ==
    JustSent =>
        /\ \A x \in ConverterInputs :
              getType(x) = "array" =>
                  LET out == convertEcommerce(x)
                      objs == ObjectEntries(x)
                  IN  /\ out.t = "array"
                      /\ Len(out.v) = Len(objs)
                      /\ \A k \in 1..Len(objs) :
                            LET item == objs[k].v
                                tuple == out.v[k].v
                            IN  /\ out.v[k].t = "array"
                                /\ Len(tuple) = 8
                                /\ tuple[1] = Str(makeString(ObjGet(item, "item_id")))
                                /\ tuple[2] = ObjGet(item, "item_name")
                                /\ tuple[3].t = "array"
                                /\ tuple[4] = ObjGet(item, "price")
                                /\ tuple[5] = ObjGet(item, "quantity")
                                /\ tuple[6] = ObjGet(item, "item_brand")
                                /\ tuple[7] = ObjGet(item, "item_variant")
                                /\ tuple[8].t = "object"
        /\ data.ec_products = Arr(<<Item1>>) =>
              /\ convertEcommerce(data.ec_products) =
                     Arr(<<Arr(<<Str("1"), Str("A"), Arr(<<Str("X")>>), Num(9), Num(2),
                                 Undefined, Undefined, Obj(<<>>)>>)>>)
              /\ ObjGet(requestBody, "ec_products") =
                     Str("[[\"1\",\"A\",[\"X\"],9,2,null,null,{}]]")
        /\ getType(data.ec_products) = "array" =>
              ObjGet(requestBody, "ec_products") =
                  JSONstringify(convertEcommerce(data.ec_products))

C11_Witness ==
    /\ pc # "start"
    /\ data.ec_products = MixedItems
    /\ Len(convertEcommerce(data.ec_products).v) = 2
    /\ ObjGet(requestBody, "ec_products") =
           Str("[[\"1\",\"A\",[\"X\"],9,2,null,null,{}],"
               \o "[\"sku-2\",\"B\",[\"Z\"],null,null,\"Br\",null,{\"7\":\"d7\",\"s\":0}]]")

\* C12: the converter returns undefined for every input that is not an array
\* (an object, a string, a number, null, undefined); when no candidate of
\* ec_products is usable the field is absent and the request is still sent.
C12_NonArrayUndefined ==
    JustSent =>
        /\ \A x \in ConverterInputs :
              getType(x) # "array" => convertEcommerce(x) = Undefined
        /\ (/\ getType(data.ec_products) # "array"
            /\ getType(ObjGet(eventData, "items")) # "array"
            /\ ObjGet(eventData, "x-pp-ec_products") = Undefined) =>
               /\ ~HasKey(requestBody, "ec_products")
               /\ "ec_products" \notin QueryKeys(SentBody)
               /\ Len(CallsTo("sendHttpRequest")) = 1

C12_Witness ==
    /\ pc # "start"
    /\ data.ec_products = Item1
    /\ ObjGet(eventData, "items") = Str("item")
    /\ ObjGet(eventData, "x-pp-ec_products") = Undefined
    /\ ~HasKey(requestBody, "ec_products")
    /\ Len(CallsTo("sendHttpRequest")) = 1
\* The keys of an object, as a set.
KeySet(o) == {o[i][1] : i \in 1..Len(o)}

\* The event has key k.
Ev(k) == ObjGet(eventData, k) # Undefined

\* The fields the script resolves from the configuration and the event.
ResolverFields ==
    SourcedFields
        \cup {"_id", "search_cats", "ec_products", "cvar", "_cvar", "ua", "lang", "res"}

\* The configuration or the event supplies a value to the resolver of f.
Supplied(f) ==
    CASE f = "ec_id" ->
            NonEmpty(data.ec_id) \/ Ev("x-pp-ec_id") \/ Ev("transaction_id")
      [] f = "action_name" ->
            NonEmpty(data.action_name) \/ Ev("x-pp-action_name") \/ Ev("page_title")
      [] f = "_id" -> NonEmpty(data._id) \/ Ev("client_id")
      [] f = "search_cats" -> NonEmpty(data.search_cats) \/ Ev("x-pp-search_cats")
      [] f = "ec_products" ->
            NonEmpty(data.ec_products) \/ Ev("x-pp-ec_products") \/ Ev("items")
      [] f = "cvar" -> Len(data.cvars_event) > 0 \/ Ev("x-pp-cvar")
      [] f = "_cvar" -> Len(data.cvars_session) > 0 \/ Ev("x-pp-_cvar")
      [] f = "ua" -> Ev("user_agent")
      [] f = "lang" -> Ev("language")
      [] f = "res" -> Ev("screen_resolution")
      [] OTHER -> NonEmpty(data[f]) \/ Ev(FieldSource[f])

\* The fields that are sent whatever the inputs.
DefaultFields == {"idsite", "rec", "uia", "rmip", "ts_n", "ts_v"}

\* C13: a resolver field that neither the configuration nor the event
\* supplies is absent from the body that is sent (no pair at all, so neither
\* 0, nor empty, nor the text undefined), search_cats, cvar, _cvar and
\* ec_products included; the resolver fields that are sent have a source,
\* and rec, uia, rmip, ts_n and ts_v are sent without one.
C13_UnsuppliedAbsent ==
    JustSent =>
        LET sent == QueryKeys(SentBody)
            unsupplied == {f \in ResolverFields : ~Supplied(f) /\ ~Overridden(f)}
        IN  /\ unsupplied \cap (sent \cup KeySet(requestBody)) = {}
            /\ \A i \in 1..Len(requestBody) :
                  requestBody[i][2] # Str("undefined")
            /\ {"rec", "uia", "rmip", "ts_n", "ts_v"} \subseteq sent

C13_Witness ==
    /\ pc # "start"
    /\ eventData = <<>>
    /\ data = DefaultData
    /\ QueryKeys(SentBody) = DefaultFields
    /\ ObjGet(uiParamMap, "cvar") = Undefined
    /\ ObjGet(uiParamMap, "ec_products") = Undefined
\* The event is classified as a page view.
IsPageView ==
    data.eventType = Str("pageview") \/ ObjGet(eventData, "event_name") = Str("page_view")

\* C14: action_name is the configuration's action_name if not empty, else
\* the event's x-pp-action_name if not empty, else the event's page_title
\* when the event is a page view; for an event that is not a page view and
\* has neither name, action_name is absent even if page_title is present.
C14_ActionName ==
    (pc # "start" /\ ~Overridden("action_name")) =>
        LET cfg == data.action_name
            pp == ObjGet(eventData, "x-pp-action_name")
            title == ObjGet(eventData, "page_title")
            got == ObjGet(requestBody, "action_name")
        IN  /\ NonEmpty(cfg) => got = cfg
            /\ (~NonEmpty(cfg) /\ Truthy(pp)) => got = pp
            /\ (~NonEmpty(cfg) /\ ~Truthy(pp) /\ IsPageView) =>
                   got = (IF NotNullish(title) THEN title ELSE Undefined)
            /\ (~NonEmpty(cfg) /\ ~Truthy(pp) /\ ~IsPageView) =>
                   /\ ~HasKey(requestBody, "action_name")
                   /\ "action_name" \notin QueryKeys(SentBody)

C14_Witness ==
    /\ pc # "start"
    /\ data.eventType = Str("custom")
    /\ ObjGet(eventData, "event_name") = Str("purchase")
    /\ ObjGet(eventData, "page_title") = Str("Home")
    /\ ObjGet(eventData, "x-pp-action_name") = Str("")
    /\ ~HasKey(requestBody, "action_name")
    /\ "action_name" \notin QueryKeys(SentBody)
\* Row i is the last row of its table with its index (column col).
LastOf(rows, col, i) == \A j \in (i + 1)..Len(rows) : rows[j][col] # rows[i][col]

\* C15: every row {index, value} of custom_dims makes dimension<index>
\* carry value (the later row when two share an index) in place of the
\* event's x-pp-dimension<index>; an event dimension whose index is not
\* configured is sent with the event's value.
C15_CustomDimensions ==
    pc # "start" =>
        LET dims == data.custom_dims
            configured == {"dimension" \o makeString(dims[i].index) : i \in 1..Len(dims)}
        IN  /\ \A i \in 1..Len(dims) :
                  LET k == "dimension" \o makeString(dims[i].index)
                  IN  (LastOf(dims, "index", i) /\ ~Overridden(k)) =>
                          /\ ObjGet(requestBody, k) = dims[i].value
                          /\ k \in QueryKeys(SentBody)
            /\ \A k \in {"dimension1", "dimension2", "dimension3"} :
                  (k \notin configured /\ ~Overridden(k) /\ Ev("x-pp-" \o k)) =>
                      ObjGet(requestBody, k) = ObjGet(eventData, "x-pp-" \o k)

C15_Witness ==
    /\ pc # "start"
    /\ data.custom_dims = <<[index |-> Str("1"), value |-> Str("cd")],
                            [index |-> Str("1"), value |-> Str("")]>>
    /\ data.additionalParameters = <<>>
    /\ ObjGet(eventData, "x-pp-dimension1") = Str("evt")
    /\ ObjGet(eventData, "x-pp-dimension3") = Str("evt3")
    /\ ObjGet(requestBody, "dimension1") = Str("")
    /\ ObjGet(requestBody, "dimension3") = Str("evt3")

\* The mapping id -> [name, value] of a table of custom variables, the later
\* row of an id standing for it, ids in the order JSON.stringify lists them.
CvarMapping(cvars) ==
    LET ids == SelectSeq(<<Str("1"), Str("2"), Str("5")>>,
                         LAMBDA id : \E i \in 1..Len(cvars) : cvars[i].id = id)
        row(id) == cvars[CHOOSE i \in 1..Len(cvars) :
                             cvars[i].id = id /\ LastOf(cvars, "id", i)]
    IN  Obj([n \in 1..Len(ids) |->
                <<ids[n].v, Arr(<<row(ids[n]).name, row(ids[n]).value>>)>>])

\* C16: in each scope, a configured list that is not empty makes the field
\* the JSON text of the mapping id -> [name, value] (the later row of an id
\* replacing the earlier) whatever the event's x-pp-cvar / x-pp-_cvar is; an
\* empty list makes it the JSON text of the event's value.
C16_CustomVariables ==
    pc # "start" =>
        \A scope \in {<<"cvar", data.cvars_event>>, <<"_cvar", data.cvars_session>>} :
            LET field == scope[1]
                cvars == scope[2]
                got == ObjGet(requestBody, field)
            IN  ~Overridden(field) =>
                    /\ Len(cvars) > 0 => got = JSONstringify(CvarMapping(cvars))
                    /\ Len(cvars) = 0 =>
                           got = JSONstringify(ObjGet(eventData, "x-pp-" \o field))

C16_Witness ==
    /\ pc # "start"
    /\ data.cvars_event = <<[id |-> Str("2"), name |-> Str("n2"), value |-> Str("v")],
                            [id |-> Str("2"), name |-> Str("n2"), value |-> Str("w")]>>
    /\ data.cvars_session = <<>>
    /\ ObjGet(eventData, "x-pp-cvar") = EventCvars
    /\ ObjGet(eventData, "x-pp-_cvar") = EventCvars
    /\ ObjGet(requestBody, "cvar") = Str("{\"2\":[\"n2\",\"w\"]}")
    /\ ObjGet(requestBody, "_cvar") = Str("{\"1\":[\"en\",\"ev\"]}")
\* C17: uia and rmip are in every request; a flag is 1 when the
\* configuration's anonymisation mode names it, whatever the event says, and
\* in every other mode it is the event's x-pp-uia / x-pp-rmip when that is
\* truthy and 0 otherwise.
C17_AnonymousFlags ==
    pc # "start" =>
        LET sent == QueryKeys(SentBody)
        IN  \A flag \in {"uia", "rmip"} :
                LET got == ObjGet(requestBody, flag)
                    e == ObjGet(eventData, "x-pp-" \o flag)
                IN  /\ HasKey(requestBody, flag)
                    /\ flag \in sent
                    /\ ~Overridden(flag) =>
                          /\ data.anonymous = Str(flag) => got = Num(1)
                          /\ data.anonymous # Str(flag) =>
                                got = (IF Truthy(e) THEN e ELSE Num(0))

C17_Witness ==
    /\ pc # "start"
    /\ data.anonymous = Str("uia")
    /\ data.additionalParameters = <<>>
    /\ ObjGet(eventData, "x-pp-uia") = Num(0)
    /\ ObjGet(eventData, "x-pp-rmip") = Num(1)
    /\ ObjGet(requestBody, "uia") = Num(1)
    /\ ObjGet(requestBody, "rmip") = Num(1)
\* The pair of the i-th key of the parameter set.
PairOf(body, i) == body[i][1] \o "=" \o encodeUriComponent(body[i][2])

\* A key that holds none of the separators of the body.
PlainKey(k) == \A i \in 1..Len(k) : Ch(k, i) \notin {"&", "="}

\* C18: the body is one key=percent-encoded-value pair per key of the purged
\* parameter set, each key once, the pairs joined by '&' with no separator
\* before the first or after the last; no key is left out and no pair is
\* added.  When no key holds a separator, a receiver reads back exactly the
\* keys of the parameter set.
C18_BodyIsJoinedPairs ==
    JustSent =>
        LET n == Len(requestBody)
            segs == Segments(SentBody)
        IN  /\ Cardinality(KeySet(requestBody)) = n
            /\ SentBody = Concat(LAMBDA i : (IF i > 1 THEN "&" ELSE "")
                                               \o PairOf(requestBody, i), 1, n)
            /\ Ch(SentBody, 1) # "&"
            /\ Ch(SentBody, Len(SentBody)) # "&"
            /\ (\A i \in 1..n : PlainKey(requestBody[i][1])) =>
                  /\ Len(segs) = n
                  /\ \A i \in 1..n :
                        SubSeq(SentBody, segs[i][1], segs[i][2]) = PairOf(requestBody, i)

C18_Witness ==
    /\ pc # "start"
    /\ data.url = Str("cfg url")
    /\ data.additionalParameters = <<>>
    /\ eventData = <<<<"user_agent", Str("UA/1.0")>>>>
    /\ SentBody = "idsite=0a1b2c3d-0000-4000-8000-00000000beef&rec=1&uia=0&rmip=0"
                       \o "&url=cfg%20url&ua=UA%2F1.0&ts_n=sgtm&ts_v=1.0.3"
\* The calls that are not diagnostic records.
NonLog(calls) == SelectSeq(calls, LAMBDA c : c.api # "logToConsole")

\* The configuration with another logging setting, all else equal.
WithLogType(lt) == [data EXCEPT !.logType = lt]

\* C19: with logging disabled no record is written, and the logging setting
\* changes nothing else: whatever the setting, the calls of this invocation,
\* records aside, are those the same inputs give with logging disabled (the
\* same request, and for the same response the same status, header and
\* signal), so two invocations that differ in the setting alone agree.
C19_LoggingOnlyLogs ==
    /\ ~LOGGING_ENABLED(data, containerVersion) => Len(CallsTo("logToConsole")) = 0
    /\ pc = "pending" =>
          LET d == WithLogType(Str("no"))
              body == BuildRequestBody(eventData, BuildUiParamMap(d, eventData))
          IN  /\ body = requestBody
              /\ ScriptCalls(d, containerVersion, traceHeader, body) = NonLog(hostCalls)
    /\ pc = "done" =>
          LET sibling == ThenCalls(WithLogType(Str("no")), containerVersion,
                                   traceHeader, requestBody, response)
              mine == NonLog(hostCalls)
          IN  /\ Len(mine) = 1 + Len(sibling)
              /\ SubSeq(mine, 2, Len(mine)) = sibling
              /\ mine[Len(mine)].api =
                     (IF response.statusCode < 400 THEN "gtmOnSuccess"
                      ELSE "gtmOnFailure")

C19_Witness ==
    /\ pc = "done"
    /\ data.logType = Str("no")
    /\ containerVersion.debugMode
    /\ response.statusCode = 404
    /\ Len(CallsTo("logToConsole")) = 0
    /\ Len(hostCalls) = 4
    /\ hostCalls[4].api = "gtmOnFailure"

\* The text a record of the given type starts with, the trace identifier
\* being the trace-id header when the request has one.
RecordStart(type) ==
    "{\"Name\":\"PiwikPro\",\"Type\":\"" \o type \o "\","
        \o (IF traceHeader = Undefined THEN ""
            ELSE "\"TraceId\":" \o JsonQuote(traceHeader.v) \o ",")
        \o "\"EventName\":"

\* Call c writes a record of the given type with this request's trace id.
IsRecord(c, type) ==
    /\ c.api = "logToConsole"
    /\ c.args[1].t = "string"
    /\ Len(c.args[1].v) >= Len(RecordStart(type))
    /\ SubSeq(c.args[1].v, 1, Len(RecordStart(type))) = RecordStart(type)

\* C20: with logging enabled one Request record is written, before the
\* request is sent, and one Response record per response, after it arrives
\* and before the status, the header and the signal; both carry the trace
\* identifier of the inbound trace-id header.
C20_RecordsInOrder ==
    LOGGING_ENABLED(data, containerVersion) =>
        /\ pc = "start" => hostCalls = <<>>
        /\ pc \in {"pending", "rejected"} =>
              /\ Len(hostCalls) = 2
              /\ IsRecord(hostCalls[1], "Request")
              /\ hostCalls[2].api = "sendHttpRequest"
        /\ pc = "done" =>
              /\ Len(hostCalls) = 6
              /\ IsRecord(hostCalls[1], "Request")
              /\ hostCalls[2].api = "sendHttpRequest"
              /\ IsRecord(hostCalls[3], "Response")
              /\ hostCalls[4] = Call("setResponseStatus", <<response.statusCode>>)
              /\ hostCalls[5].api = "setResponseHeader"
              /\ hostCalls[6].api \in {"gtmOnSuccess", "gtmOnFailure"}

C20_Witness ==
    /\ pc = "done"
    /\ data.logType = Str("always")
    /\ traceHeader = Str("trace-1")
    /\ ObjGet(eventData, "page_title") = Str("Home")
    /\ hostCalls[1].args[1].v =
           "{\"Name\":\"PiwikPro\",\"Type\":\"Request\",\"TraceId\":\"trace-1\","
               \o "\"EventName\":\"Home\",\"RequestMethod\":\"POST\","
               \o "\"RequestUrl\":\"https://acme.piwik.pro/ppms.php\","
               \o "\"RequestHeaders\":{\"content-type\":\"application/x-www-form-urlencoded\"},"
               \o "\"RequestBody\":{\"idsite\":\"0a1b2c3d-0000-4000-8000-00000000beef\","
               \o "\"rec\":1,\"uia\":0,\"rmip\":0,\"action_name\":\"Home\","
               \o "\"ts_n\":\"sgtm\",\"ts_v\":\"1.0.3\"}}"
    /\ IsRecord(hostCalls[3], "Response")
\* C21: on every response, whatever its status code, the then-callback
\* writes the upstream status code and the upstream cache-control header
\* value as they are to the caller's response, once each, and both before
\* gtmOnSuccess or gtmOnFailure.
C21_StatusAndHeaderFirst ==
    /\ pc # "done" =>
          Len(CallsTo("setResponseStatus")) + Len(CallsTo("setResponseHeader")) = 0
    /\ pc = "done" =>
          LET n == Len(hostCalls)
          IN  /\ n >= 4
              /\ hostCalls[n - 2] = Call("setResponseStatus", <<response.statusCode>>)
              /\ hostCalls[n - 1] =
                     Call("setResponseHeader",
                          <<"cache-control", ObjGet(response.headers, "cache-control")>>)
              /\ hostCalls[n].api \in {"gtmOnSuccess", "gtmOnFailure"}
              /\ Len(CallsTo("setResponseStatus")) = 1
              /\ Len(CallsTo("setResponseHeader")) = 1

C21_Witness ==
    /\ pc = "done"
    /\ response.statusCode = 404
    /\ ObjGet(response.headers, "cache-control") = Str("no-store")
    /\ Len(hostCalls) = 4
    /\ hostCalls[2] = Call("setResponseStatus", <<404>>)
    /\ hostCalls[3] = Call("setResponseHeader", <<"cache-control", Str("no-store")>>)
    /\ hostCalls[4].api = "gtmOnFailure"
\* The values JavaScript takes for false.
Falsy == {Undefined, Null, NaN, Str(""), Num(0), Bool(FALSE)}

CategoryLevels ==
    <<"item_category", "item_category2", "item_category3", "item_category4",
      "item_category5">>

\* C22: in every tuple of the converter the category list holds the values
\* of item_category, item_category2 .. item_category5 that are truthy, in
\* level order; a level that is absent, empty, null or 0 is dropped, so the
\* list has at most 5 elements and may have none.
C22_CategoryList ==
    JustSent =>
        \A x \in ConverterInputs :
            getType(x) = "array" =>
                LET out == convertEcommerce(x).v
                    objs == ObjectEntries(x)
                IN  \A k \in 1..Len(objs) :
                        LET item == objs[k].v
                            cats == out[k].v[3].v
                            kept == SelectSeq(CategoryLevels,
                                        LAMBDA l : ObjGet(item, l) \notin Falsy)
                        IN  /\ Len(cats) = Len(kept)
                            /\ Len(cats) <= 5
                            /\ \A n \in 1..Len(kept) : cats[n] = ObjGet(item, kept[n])

C22_Witness ==
    /\ pc # "start"
    /\ data.ec_products = LeveledItems
    /\ convertEcommerce(data.ec_products).v[1].v[3] =
           Arr(<<Str("A"), Str("D"), Str("E")>>)
    /\ convertEcommerce(data.ec_products).v[2].v[3] =
           Arr(<<Str("a"), Str("b"), Str("c"), Str("d"), Str("e")>>)
    /\ ObjGet(requestBody, "ec_products") =
           Str("[[\"sku-3\",null,[\"A\",\"D\",\"E\"],null,null,null,null,"
               \o "{\"7\":7,\"10\":\"ten\",\"\":\"bare\"}],"
               \o "[\"sku-4\",null,[\"a\",\"b\",\"c\",\"d\",\"e\"],null,null,null,null,{}]]")

\* Text k starts with the nine characters of dimension.
HasDimensionPrefix(k) == Len(k) >= 9 /\ SubSeq(k, 1, 9) = "dimension"

\* C23: in every tuple of the converter the trailing map has one entry per
\* key of the item that starts with dimension: its key is the rest of the
\* item's key and its value the item's value; other keys add nothing.
C23_DimensionMap ==
    JustSent =>
        \A x \in ConverterInputs :
            getType(x) = "array" =>
                LET out == convertEcommerce(x).v
                    objs == ObjectEntries(x)
                IN  \A k \in 1..Len(objs) :
                        LET item == objs[k].v
                            map == out[k].v[8].v
                            keys == {p \in KeySet(item) : HasDimensionPrefix(p)}
                        IN  /\ Len(map) = Cardinality(keys)
                            /\ KeySet(map) = {SubSeq(p, 10, Len(p)) : p \in keys}
                            /\ \A p \in keys :
                                  ObjGet(map, SubSeq(p, 10, Len(p))) = ObjGet(item, p)

C23_Witness ==
    /\ pc # "start"
    /\ ObjGet(eventData, "items") = LeveledItems
    /\ convertEcommerce(ObjGet(eventData, "items")).v[1].v[8] =
           Obj(<<<<"7", Num(7)>>, <<"10", Str("ten")>>, <<"", Str("bare")>>>>)
    /\ convertEcommerce(ObjGet(eventData, "items")).v[2].v[8] = Obj(<<>>)
\* The number of records this invocation has written so far.
Records == Len(CallsTo("logToConsole"))

\* The cases in which records are to be written.
LoggingCase ==
    \/ data.logType = Str("always")
    \/ /\ data.logType \in {Str("debug"), Undefined}
       /\ containerVersion.debugMode \/ containerVersion.previewMode

\* C24: logging is enabled exactly when logType is always, or when logType
\* is debug or unset and the container is in debug or preview mode; with
\* logType no, and with any other value, it is disabled whatever the mode.
\* Enabled logging writes one record with the request and one with the
\* response; disabled logging writes none.
C24_LoggingCases ==
    /\ LOGGING_ENABLED(data, containerVersion) <=> LoggingCase
    /\ pc = "start" => Records = 0
    /\ pc \in {"pending", "rejected"} => Records = (IF LoggingCase THEN 1 ELSE 0)
    /\ pc = "done" => Records = (IF LoggingCase THEN 2 ELSE 0)
    /\ data.logType \notin {Str("always"), Str("debug"), Undefined} => Records = 0

C24_Witness ==
    /\ pc = "done"
    /\ data.logType = Undefined
    /\ containerVersion.previewMode
    /\ ~containerVersion.debugMode
    /\ Records = 2
\* The keys the map of resolved parameters holds whatever the inputs are.
AlwaysWritten ==
    {"idsite", "rec", "uia", "rmip", "action_name", "url", "urlref", "search",
     "search_cats", "search_count", "link", "download", "e_c", "e_a", "e_n",
     "e_v", "_id", "uid", "cip", "e_t", "ec_id", "revenue", "ec_st", "ec_sh",
     "ec_tx", "ec_dt", "ec_products", "ua", "lang", "res", "cvar", "_cvar"}

\* A pass after the pass-through writes key name.
WrittenLater(name) == HasKey(uiParamMap, name) \/ name \in {"ts_n", "ts_v"}

\* The value the later passes leave under name.
LaterValue(name) ==
    CASE name = "ts_n" -> LIBRARY_NAME
      [] name = "ts_v" -> LIBRARY_VERSION
      [] OTHER -> ObjGet(uiParamMap, name)

\* The body carries name with value x, or lacks name when x is not set.
Carries(name, x) ==
    IF NotNullish(x)
    THEN HasKey(requestBody, name) /\ ObjGet(requestBody, name) = x
    ELSE ~HasKey(requestBody, name)

\* C25: an event key x-pp-<name> reaches the body as <name> with the event's
\* value exactly when no later pass writes <name>; a key a later pass writes
\* carries that pass's value, and is absent when that value is not set,
\* whatever the event gave under x-pp-<name>. The keys of the resolver are
\* written on every invocation.
C25_PassThrough ==
    JustSent =>
        /\ AlwaysWritten \subseteq KeySet(uiParamMap)
        /\ \A i \in 1..Len(eventData) :
              LET name == SliceFrom(eventData[i][1], 5)
              IN  Slice(eventData[i][1], 0, 5) = "x-pp-" =>
                      IF WrittenLater(name)
                      THEN Carries(name, LaterValue(name))
                      ELSE Carries(name, eventData[i][2])

C25_Witness ==
    /\ pc # "start"
    /\ ObjGet(eventData, "x-pp-url") = Str("pp")
    /\ data.url = Undefined
    /\ ~HasKey(eventData, "page_location")
    /\ ~Overridden("url")
    /\ ~HasKey(requestBody, "url")
\* The sent body has the pair text between two separators.
SendsPair(text) ==
    LET segs == Segments(SentBody)
    IN  \E n \in 1..Len(segs) : SubSeq(SentBody, segs[n][1], segs[n][2]) = text

\* The configuration's product list is an array without an object entry.
NoObjectList ==
    /\ getType(data.ec_products) = "array"
    /\ Len(ObjectEntries(data.ec_products)) = 0

\* C26: when the configuration's product list is an array with no object
\* entry, the empty array included, ec_products resolves to the text [] and
\* is sent so; the event's x-pp-ec_products and items are not used, whatever
\* they hold.
C26_EmptyListWins ==
    (JustSent /\ NoObjectList /\ ~Overridden("ec_products")) =>
        /\ ObjGet(uiParamMap, "ec_products") = Str("[]")
        /\ ObjGet(requestBody, "ec_products") = Str("[]")
        /\ SendsPair("ec_products=%5B%5D")

C26_Witness ==
    /\ pc # "start"
    /\ data.ec_products = Arr(<<Str("junk")>>)
    /\ ObjGet(eventData, "items") = MixedItems
    /\ ObjGet(eventData, "x-pp-ec_products") = Str("[[\"8\",\"Q\"]]")
    /\ ObjGet(requestBody, "ec_products") = Str("[]")
    /\ SendsPair("ec_products=%5B%5D")
\* The parameter set as the passes leave it, before the purge.
Unpurged == RawRequestBody(eventData, uiParamMap)

\* C27: the purge removes the keys whose final value is null or undefined
\* and no other: a key whose final value is 0 or the empty text stays in the
\* parameter set with that value and is sent as a pair (k=0, k=), so an empty
\* page_location with no configured url is sent as url=.
C27_PurgeKeepsZeroAndEmpty ==
    JustSent =>
        LET raw == Unpurged
        IN  /\ KeySet(requestBody) =
                   {raw[i][1] : i \in {j \in 1..Len(raw) : raw[j][2] \notin {Null, Undefined}}}
            /\ \A i \in 1..Len(raw) :
                  raw[i][2] \in {Str(""), Num(0)} =>
                      /\ ObjGet(requestBody, raw[i][1]) = raw[i][2]
                      /\ PlainKey(raw[i][1]) =>
                            SendsPair(raw[i][1] \o "=" \o
                                      (IF raw[i][2] = Num(0) THEN "0" ELSE ""))

C27_Witness ==
    /\ pc # "start"
    /\ ObjGet(eventData, "page_location") = Str("")
    /\ data.url = Undefined
    /\ ~Overridden("url")
    /\ ObjGet(requestBody, "url") = Str("")
    /\ SendsPair("url=")
    /\ SendsPair("uia=0")
\* C28: with no visitor id in the configuration, a client_id of the event
\* that is 16 hexadecimal characters already is the _id of the request as it
\* is, not hashed, and with client_id absent or empty the request has no _id.
C28_ClientIdVerbatim ==
    (JustSent /\ ~Truthy(data._id) /\ ~Overridden("_id")) =>
        LET cid == ObjGet(eventData, "client_id")
        IN  /\ testClientIdRegex(cid) =>
                  /\ ObjGet(requestBody, "_id") = cid
                  /\ SendsPair("_id=" \o cid.v)
            /\ cid \in {Undefined, Str("")} =>
                  /\ ~HasKey(requestBody, "_id")
                  /\ "_id" \notin QueryKeys(SentBody)

C28_Witness ==
    /\ pc # "start"
    /\ data._id = Str("")
    /\ ObjGet(eventData, "client_id") = Str("ABCDEF0123456789")
    /\ ObjGet(eventData, "x-pp-_id") = Str("pp")
    /\ SendsPair("_id=ABCDEF0123456789")
\* const LIBRARY_VERSION of the copy of the script in template.tpl
TPL_LIBRARY_VERSION == Str("1.0.2")

\* requestBody as the copy in template.tpl builds it: the same passes, with
\* that copy's library fields.
TplBuildRequestBody(ev, ui) ==
    cleanObject(AssignAll(Overwrite(PiwikParams(ev), ui),
                          << <<"ts_n", LIBRARY_NAME>>, <<"ts_v", TPL_LIBRARY_VERSION>> >>))

\* The host calls of the copy in template.tpl, whose text differs from
\* template.js in the library version alone.
TplCalls ==
    LET body == TplBuildRequestBody(eventData, BuildUiParamMap(data, eventData))
        first == ScriptCalls(data, containerVersion, traceHeader, body)
    IN  IF pc = "done"
        THEN first \o ThenCalls(data, containerVersion, traceHeader, body, response)
        ELSE first

\* The calls with the version text of either copy taken out of the request.
SignalsOf(calls) ==
    SelectSeq(calls, LAMBDA c : c.api \notin {"sendHttpRequest", "logToConsole"})

\* C29 as stated: the copy of the script in template.tpl and template.js
\* make the same host calls on the same inputs and response: the same
\* request (URL, options with headers, body with ts_n and ts_v), the same
\* status and header writes and the same signal.
C29_CopiesAgree ==
    pc \in {"pending", "done"} => TplCalls = hostCalls

\* What the two copies do agree on: the parameter set but for ts_v, the
\* status and header writes and the signal.
C29_AgreeButVersion ==
    pc \in {"pending", "done"} =>
        LET body == TplBuildRequestBody(eventData, BuildUiParamMap(data, eventData))
        IN  /\ SignalsOf(TplCalls) = SignalsOf(hostCalls)
            /\ KeySet(body) = KeySet(requestBody)
            /\ \A k \in KeySet(body) \ {"ts_v"} : ObjGet(body, k) = ObjGet(requestBody, k)
            /\ ObjGet(body, "ts_v") = Str("1.0.2")
            /\ ObjGet(requestBody, "ts_v") = Str("1.0.3")
====
